---- MODULE Spec2Model ----
(***************************************************************************)
(* Model of bin/report.py of wf-cas9: the report assembler main() and the  *)
(* section builders it calls.  Tables are sequences of records, strings    *)
(* that are compared are sequences of one-character strings, and floating  *)
(* point values are exact rationals [num, den] (den = 0 is NaN or inf).    *)
(***************************************************************************)
EXTENDS Integers, Sequences, FiniteSets, TLC

VARIABLES files, pc, report, cov, exc, written

vars == <<files, pc, report, cov, exc, written>>

(***************************************************************************)
(* Bounds                                                                  *)
(***************************************************************************)
MaxSamples == 2
MaxReadRows == 2
MaxSummaryRows == 2
MaxTargets == 5
MaxHotspotRows == 3
MaxHotspotReads == 2

(***************************************************************************)
(* Strings and their orders                                                *)
(***************************************************************************)
Digits == <<"0", "1", "2", "3", "4", "5", "6", "7", "8", "9">>

Letters == <<"A", "B", "C", "D", "E", "F", "X", "c", "h", "r">>

LetterCodes == <<65, 66, 67, 68, 69, 70, 88, 99, 104, 114>>

DigitSet == {Digits[i] : i \in 1..10}

IsDigit(c) == c \in DigitSet

DigitTable ==
    [c \in DigitSet |-> (CHOOSE i \in 1..10 : Digits[i] = c) - 1]

DigitVal(c) == DigitTable[c]

OrdTable ==
    [c \in DigitSet \cup {Letters[i] : i \in 1..Len(Letters)} |->
        IF c \in DigitSet THEN 48 + DigitTable[c]
        ELSE LetterCodes[CHOOSE i \in 1..Len(Letters) : Letters[i] = c]]

\* code point of a character, the order Python compares str by
Ord(c) == OrdTable[c]

Min(S) == CHOOSE x \in S : \A y \in S : x <= y

Max(S) == CHOOSE x \in S : \A y \in S : x >= y

\* lexicographic order of two sequences of integers (Python tuple/str order)
CodesLess(a, b) ==
    LET diff == {i \in 1..Min({Len(a), Len(b)}) : a[i] # b[i]}
    IN  IF diff = {} THEN Len(a) < Len(b)
        ELSE a[Min(diff)] < b[Min(diff)]

Codes(s) == [i \in 1..Len(s) |-> Ord(s[i])]

\* plain str comparison: s < t
StrLess(s, t) == CodesLess(Codes(s), Codes(t))

(***************************************************************************)
(* natsort: the key of a string is its split into text and digit runs,     *)
(* the digit runs read as integers; keys start with a text token (empty    *)
(* when the string starts with a digit) and alternate text, number.        *)
(***************************************************************************)
NatKey(s) ==
    LET K[i \in 0..Len(s)] ==
            IF i = 0 THEN <<>>
            ELSE LET prev == K[i - 1]
                     c == s[i]
                     n == Len(prev)
                 IN  IF IsDigit(c)
                     THEN IF n > 0 /\ prev[n].isnum
                          THEN [prev EXCEPT ![n].num = @ * 10 + DigitVal(c)]
                          ELSE (IF n = 0
                                THEN <<[isnum |-> FALSE, num |-> 0, txt |-> <<>>]>>
                                ELSE prev)
                               \o <<[isnum |-> TRUE, num |-> DigitVal(c), txt |-> <<>>]>>
                     ELSE IF n > 0 /\ ~prev[n].isnum
                          THEN [prev EXCEPT ![n].txt = Append(@, Ord(c))]
                          ELSE Append(prev, [isnum |-> FALSE, num |-> 0,
                                             txt |-> <<Ord(c)>>])
    IN  K[Len(s)]

TokenLess(a, b) ==
    IF a.isnum THEN a.num < b.num ELSE CodesLess(a.txt, b.txt)

\* tuple comparison of two natsort keys
NatKeyLess(a, b) ==
    LET diff == {i \in 1..Min({Len(a), Len(b)}) : a[i] # b[i]}
    IN  IF diff = {} THEN Len(a) < Len(b)
        ELSE TokenLess(a[Min(diff)], b[Min(diff)])

\* natural order of two strings: s < t
NatLess(s, t) == NatKeyLess(NatKey(s), NatKey(t))

(***************************************************************************)
(* Stable sort (Python sorted, numpy lexsort): insertion of each element   *)
(* after the elements that are not greater.                                *)
(***************************************************************************)
InsertStable(t, x, Less(_, _)) ==
    LET js == {j \in 1..Len(t) : Less(x, t[j])}
        pos == IF js = {} THEN Len(t) + 1 ELSE Min(js)
    IN  SubSeq(t, 1, pos - 1) \o <<x>> \o SubSeq(t, pos, Len(t))

StableSort(s, Less(_, _)) ==
    LET F[k \in 0..Len(s)] ==
            IF k = 0 THEN <<>> ELSE InsertStable(F[k - 1], s[k], Less)
    IN  F[Len(s)]

\* all sequences of length 0..n over S
SeqsUpTo(S, n) == UNION {[1..k -> S] : k \in 0..n}

\* the rows of a file, numbered as pandas numbers them (RangeIndex)
WithIndex(rows) == [i \in 1..Len(rows) |-> [idx |-> i, row |-> rows[i]]]

(***************************************************************************)
(* Floating point values as exact rationals                                *)
(***************************************************************************)
Ratio(a, b) == [num |-> a, den |-> b]

\* 0/0, the mean of an empty selection
IsNaN(q) == q.den = 0 /\ q.num = 0

IsFinite(q) == q.den # 0

\* astype('int') of a finite non-negative value: truncation
IntCast(q) == q.num \div q.den

SumSeq(s) ==
    LET F[k \in 0..Len(s)] == IF k = 0 THEN 0 ELSE F[k - 1] + s[k]
    IN  F[Len(s)]

\* Series.mean(): NaN for an empty selection
Mean(s) == Ratio(SumSeq(s), Len(s))

(***************************************************************************)
(* Sections of the report                                                  *)
(***************************************************************************)
\* report.add_section() followed by section.markdown(): nothing rendered yet
EmptySection(kind) == [kind |-> kind, rendered |-> FALSE, table |-> <<>>]

RenderedSection(kind, table) == [kind |-> kind, rendered |-> TRUE, table |-> table]

NoExc == [step |-> "none", type |-> "none"]

\* an input that cannot be read or parsed makes the step raise
Unreadable(step) == step \in files.bad

(***************************************************************************)
(* main: the order of the steps                                            *)
(***************************************************************************)
StepOrder ==
    <<"read_stats", "coverage_summary", "target_summary", "target_coverage",
      "background", "hotspots", "versions", "params", "write">>

StepIndex(step) == CHOOSE i \in 1..Len(StepOrder) : StepOrder[i] = step

\* where main continues when a step returns
NextStep(step) ==
    IF StepIndex(step) = Len(StepOrder) THEN "done"
    ELSE StepOrder[StepIndex(step) + 1]

AfterRaiseContinue(step) == NextStep(step)

\* main has no try/except: an exception in a step ends the run
AfterRaise(step) == "raised"

Return(step, section) ==
    /\ report' = Append(report, section)
    /\ pc' = NextStep(step)
    /\ exc' = exc

Raise(step, type, sections) ==
    /\ report' = report \o sections
    /\ pc' = AfterRaise(step)
    /\ exc' = [step |-> step, type |-> type]

(***************************************************************************)
(* make_coverage_summary_table                                             *)
(***************************************************************************)
\* the table after line 93: rows 'on target', 'off target', 'all' with the
\* read count and the bases divided by 1000
CoverageCounts(f) ==
    LET all_reads == f.on_reads + f.off_reads
        all_bases == f.on_bases + f.off_bases
    IN  <<[name |-> "on target", num_reads |-> f.on_reads,
           kbases |-> Ratio(f.on_bases, 1000)],
          [name |-> "off target", num_reads |-> f.off_reads,
           kbases |-> Ratio(f.off_bases, 1000)],
          [name |-> "all", num_reads |-> all_reads,
           kbases |-> Ratio(all_bases, 1000)]>>

\* fillna('OFF') and the inner join with the read lengths
MergedReads(reads) ==
    LET filled == [i \in 1..Len(reads) |->
                     [reads[i] EXCEPT !.target = IF @ = "" THEN "OFF" ELSE @]]
    IN  SelectSeq(filled, LAMBDA r : r.in_stats)

ReadLengths(rows) == [i \in 1..Len(rows) |-> rows[i].read_length]

MeanReadLen(reads) ==
    LET m == MergedReads(reads)
    IN  <<Mean(ReadLengths(SelectSeq(m, LAMBDA r : r.target # "OFF"))),
          Mean(ReadLengths(SelectSeq(m, LAMBDA r : r.target = "OFF"))),
          Mean(ReadLengths(m))>>

KbasesRounded(q) == (2 * q.num + q.den) \div (2 * q.den)

\* astype('int') of the kbases column
KbasesCast(q) == IntCast(q)

\* astype('int') of the whole table
CoverageSummaryCast(counts, means) ==
    [i \in 1..3 |-> [name |-> counts[i].name,
                     num_reads |-> counts[i].num_reads,
                     kbases |-> KbasesCast(counts[i].kbases),
                     mean_read_length |-> IntCast(means[i])]]

make_coverage_summary_table ==
    /\ pc = "coverage_summary"
    /\ LET means == MeanReadLen(files.on_off)
       IN  IF Unreadable("coverage_summary")
           THEN Raise("coverage_summary", "ReadError",
                      <<EmptySection("coverage_summary")>>)
           ELSE IF \E i \in 1..3 : ~IsFinite(means[i])
           THEN Raise("coverage_summary", "IntCastingNaNError",
                      <<EmptySection("coverage_summary")>>)
           ELSE Return("coverage_summary",
                       RenderedSection("coverage_summary",
                           CoverageSummaryCast(
                               CoverageCounts(files.coverage_summary), means)))
    /\ UNCHANGED <<files, cov, written>>

(***************************************************************************)
(* _make_target_summary_table                                              *)
(***************************************************************************)
StrandBiasSwapped(p, n) == Ratio(n - p, p + n)

StrandBiasGuarded(p, n) == IF p + n = 0 THEN Ratio(0, 1) ELSE Ratio(p - n, p + n)

\* (df.p - df.n) / (df.p + df.n), element by element; 0/0 is NaN, no exception
StrandBias(p, n) == Ratio(p - n, p + n)

\* df['strandBias'] = ...; df.drop(columns=['p', 'n'])
WithStrandBias(df) ==
    [i \in 1..Len(df) |->
        [idx |-> df[i].idx, chr |-> df[i].row.chr, start |-> df[i].row.start,
         strandBias |-> StrandBias(df[i].row.p, df[i].row.n)]]

ChromLessLexicographic(a, b) == StrLess(a, b)

\* the order natsort_keygen() gives the values of the 'chr' column
ChromLess(a, b) == NatLess(a, b)

\* the order natsort_keygen() gives the values of the 'start' column
StartLess(a, b) == a < b

\* the order of sort_values(by=["chr", "start"], key=natsort_keygen())
RowLess(a, b) ==
    \/ ChromLess(a.chr, b.chr)
    \/ a.chr = b.chr /\ StartLess(a.start, b.start)

TargetSummaryTable(rows) == StableSort(WithStrandBias(WithIndex(rows)), RowLess)

_make_target_summary_table ==
    /\ pc = "target_summary"
    /\ IF Unreadable("target_summary")
       THEN Raise("target_summary", "ReadError", <<EmptySection("target_summary")>>)
       ELSE Return("target_summary",
                   RenderedSection("target_summary",
                                   TargetSummaryTable(files.target_summary)))
    /\ UNCHANGED <<files, cov, written>>

(***************************************************************************)
(* _make_offtarget_hotspot_table                                           *)
(***************************************************************************)
HotspotInOrderAscending(a, b) == a.num_reads <= b.num_reads

\* row a may stand before row b under sort_values('num_reads', ascending=False)
HotspotInOrder(a, b) == a.num_reads >= b.num_reads

IndexPermutations(n) == {f \in [1..n -> 1..n] : \A i, j \in 1..n : f[i] = f[j] => i = j}

\* the default sort kind is not stable: every order of the ties is a result
HotspotTables(rows) ==
    LET df == [i \in 1..Len(rows) |->
                 [idx |-> i, chr |-> rows[i].chr, start |-> rows[i].start,
                  num_reads |-> rows[i].num_reads]]
    IN  {[i \in 1..Len(df) |-> df[f[i]]] : f \in
            {g \in IndexPermutations(Len(df)) :
                \A i \in 1..(Len(df) - 1) : HotspotInOrder(df[g[i]], df[g[i + 1]])}}

_make_offtarget_hotspot_table ==
    /\ pc = "hotspots"
    /\ IF Unreadable("hotspots")
       THEN Raise("hotspots", "ReadError", <<EmptySection("hotspots")>>)
       ELSE \E t \in HotspotTables(files.hotspots) :
               Return("hotspots", RenderedSection("hotspots", t))
    /\ UNCHANGED <<files, cov, written>>

(***************************************************************************)
(* _plot_target_coverage                                                   *)
(***************************************************************************)
ncols == 4

\* the distinct values of the 'target' column, in the order groupby yields
\* its groups: sorted as plain strings
GroupKeys(df) ==
    LET firsts == SelectSeq([i \in 1..Len(df) |-> i],
                            LAMBDA i : \A j \in 1..(i - 1) :
                                           df[j].row.target # df[i].row.target)
        names == [k \in 1..Len(firsts) |-> df[firsts[k]].row.target]
    IN  StableSort(names, StrLess)

\* df.groupby('target'): the groups, each with its rows in file order
GroupBy(df) ==
    LET keys == GroupKeys(df)
    IN  [k \in 1..Len(keys) |->
            [target |-> keys[k],
             df |-> SelectSeq(df, LAMBDA r : r.row.target = keys[k])]]

ColumnMax(df, Col(_)) == Max({Col(df[i].row) : i \in 1..Len(df)})

YMaxForwardOnly(df) == ColumnMax(df, LAMBDA r : r.coverage_f)

\* max(df.coverage_f.max(), df.coverage_r.max()) of the group df
YMax(df) ==
    Max({ColumnMax(df, LAMBDA r : r.coverage_f),
         ColumnMax(df, LAMBDA r : r.coverage_r)})

\* ylim = [0, ymax * 1.05], in hundredths
YLim(ymax) == <<0, ymax * 105>>

\* the entry [chrom, start, p] appended for one group
PlotEntry(g) ==
    [chrom |-> g.df[1].row.chr,
     start |-> g.df[1].row.start,
     p |-> [title |-> g.target,
            x_axis_label |-> g.df[1].row.chr,
            first_start |-> g.df[1].row.start,
            ylim |-> YLim(YMax(g.df)),
            width |-> 300,
            legend |-> FALSE]]

Plots(df) ==
    LET dfg == GroupBy(df)
    IN  [k \in 1..Len(dfg) |-> PlotEntry(dfg[k])]

\* key=lambda x: x[0], made a natsort key
PlotKey(x) == NatKey(x.chrom)

\* [p[2] for p in natsorted(plots, key=lambda x: x[0])]
SortedPlots(plots) ==
    LET keyed == [i \in 1..Len(plots) |-> [key |-> PlotKey(plots[i]), val |-> plots[i]]]
        sorted == StableSort(keyed, LAMBDA a, b : NatKeyLess(a.key, b.key))
    IN  [i \in 1..Len(sorted) |-> sorted[i].val.p]

\* sorted_plots[ncols - 1] raises IndexError when there are fewer plots
LegendIndexInRange(sorted_plots) == ncols - 1 < Len(sorted_plots)

\* the legend and the extra width go to sorted_plots[ncols - 1]
WithLegend(sorted_plots) ==
    [sorted_plots EXCEPT ![ncols] = [@ EXCEPT !.width = @ + 80, !.legend = TRUE]]

\* gridplot(sorted_plots, ncols=ncols): rows of ncols charts
GridPlot(sorted_plots) ==
    LET n == Len(sorted_plots)
        nrows == (n + ncols - 1) \div ncols
    IN  [r \in 1..nrows |->
            SubSeq(sorted_plots, (r - 1) * ncols + 1, Min({r * ncols, n}))]

\* the frame bound to the name df when the loop is over: the last group,
\* or the whole table when there was no group
DfAfterLoop(df) ==
    LET dfg == GroupBy(df)
    IN  IF Len(dfg) = 0 THEN df ELSE dfg[Len(dfg)].df

\* pd.DataFrame(df.coverage_f + df.coverage_r), column 'coverage'
CoverageSeries(df) ==
    [i \in 1..Len(df) |->
        [idx |-> df[i].idx,
         coverage |-> df[i].row.coverage_f + df[i].row.coverage_r]]

_plot_target_coverage ==
    /\ pc = "target_coverage"
    /\ LET df == WithIndex(files.target_coverage)
           sorted_plots == SortedPlots(Plots(df))
       IN  IF Unreadable("target_coverage")
           THEN /\ Raise("target_coverage", "ReadError",
                         <<EmptySection("target_coverage")>>)
                /\ cov' = cov
           ELSE IF ~LegendIndexInRange(sorted_plots)
           THEN /\ Raise("target_coverage", "IndexError",
                         <<EmptySection("target_coverage")>>)
                /\ cov' = cov
           ELSE /\ Return("target_coverage",
                          RenderedSection("target_coverage",
                                          GridPlot(WithLegend(sorted_plots))))
                /\ cov' = CoverageSeries(DfAfterLoop(df))
    /\ UNCHANGED <<files, written>>

(***************************************************************************)
(* _plot_background                                                        *)
(***************************************************************************)
\* weights = [[1] * len(df), [target_weight] * len(target_coverage)]
Histogram(background, target_coverage) ==
    [background |-> background,
     target |-> [i \in 1..Len(target_coverage) |-> target_coverage[i].coverage],
     target_weight |-> Ratio(Len(background), Len(target_coverage))]

_plot_background ==
    /\ pc = "background"
    /\ IF Unreadable("background")
       THEN Raise("background", "ReadError", <<EmptySection("background")>>)
       ELSE IF Len(cov) = 0
       THEN Raise("background", "ZeroDivisionError",
                  <<EmptySection("background")>>)
       ELSE Return("background",
                   RenderedSection("background",
                                   <<Histogram(files.background, cov)>>))
    /\ UNCHANGED <<files, cov, written>>

(***************************************************************************)
(* main                                                                    *)
(***************************************************************************)
\* one pass of the loop over zip(args.sample_ids, args.summaries)
read_stats ==
    /\ pc = "read_stats"
    /\ IF Unreadable("read_stats")
       THEN Raise("read_stats", "ReadError", <<>>)
       ELSE /\ report' = Append(report,
                   RenderedSection("read_stats", <<Len(report) + 1>>))
            /\ pc' = IF Len(report) + 1 < files.nsamples
                     THEN "read_stats" ELSE NextStep("read_stats")
            /\ exc' = exc
    /\ UNCHANGED <<files, cov, written>>

\* report.add_section(section=scomponents.version_table(args.versions))
version_table ==
    /\ pc = "versions"
    /\ IF Unreadable("versions")
       THEN Raise("versions", "ReadError", <<>>)
       ELSE Return("versions", RenderedSection("versions", <<>>))
    /\ UNCHANGED <<files, cov, written>>

\* report.add_section(section=scomponents.params_table(args.params))
params_table ==
    /\ pc = "params"
    /\ IF Unreadable("params")
       THEN Raise("params", "ReadError", <<>>)
       ELSE Return("params", RenderedSection("params", <<>>))
    /\ UNCHANGED <<files, cov, written>>

\* report.write(args.report)
write ==
    /\ pc = "write"
    /\ IF Unreadable("write")
       THEN /\ pc' = AfterRaise("write")
            /\ exc' = [step |-> "write", type |-> "OSError"]
            /\ written' = written
       ELSE /\ pc' = NextStep("write")
            /\ exc' = exc
            /\ written' = TRUE
    /\ UNCHANGED <<files, report, cov>>

(***************************************************************************)
(* Inputs: the contents of the files named on the command line             *)
(***************************************************************************)
chr2 == <<"c", "h", "r", "2">>

chr10 == <<"c", "h", "r", "1", "0">>

ChromNames == {chr2, chr10}

ReadCounts == {0, 20, 100}

BaseCounts == {0, 500, 1500, 5000, 50000}

CoverageSummaryFiles ==
    [on_reads : ReadCounts, off_reads : ReadCounts,
     on_bases : BaseCounts, off_bases : BaseCounts]

\* target "" is a missing value (a read that overlaps no target)
OnOffRows == [target : {"", "T"}, in_stats : BOOLEAN, read_length : {1000, 2501}]

OnOffFiles == SeqsUpTo(OnOffRows, MaxReadRows)

StrandCounts == {0, 1, 3}

TargetSummaryRows ==
    [chr : ChromNames, start : {900, 1000}, p : StrandCounts, n : StrandCounts]

TargetSummaryFiles == SeqsUpTo(TargetSummaryRows, MaxSummaryRows)

\* target names in the order the targets appear in the file
TargetPool == <<<<"B">>, <<"A">>, <<"D">>, <<"C">>, <<"F">>, <<"E">>>>

Bin(f, r) == [coverage_f |-> f, coverage_r |-> r]

Profile246 == <<Bin(2, 1), Bin(4, 3), Bin(6, 5)>>

Profile07 == <<Bin(0, 7)>>

\* what one target can be: its chromosome, its first bin and its coverage
TargetChoices ==
    {[chr |-> chr2, start |-> 1000, profile |-> Profile246],
     [chr |-> chr2, start |-> 2000, profile |-> Profile07],
     [chr |-> chr10, start |-> 1000, profile |-> Profile07],
     [chr |-> chr10, start |-> 2000, profile |-> Profile246]}

\* the rows of target k: one row per 100-bp bin
TargetRows(k, c) ==
    [j \in 1..Len(c.profile) |->
        [chr |-> c.chr, start |-> c.start + 100 * (j - 1), target |-> TargetPool[k],
         coverage_f |-> c.profile[j].coverage_f,
         coverage_r |-> c.profile[j].coverage_r]]

TargetCoverageFile(choices) ==
    LET F[k \in 0..Len(choices)] ==
            IF k = 0 THEN <<>> ELSE F[k - 1] \o TargetRows(k, choices[k])
    IN  F[Len(choices)]

TargetCoverageFiles ==
    {TargetCoverageFile(cs) :
        cs \in SeqsUpTo(TargetChoices, Min({MaxTargets, Len(TargetPool)}))}

HotspotRows == [chr : {chr2}, start : {0, 1000}, num_reads : 0..MaxHotspotReads]

HotspotFiles == SeqsUpTo(HotspotRows, MaxHotspotRows)

Steps == {StepOrder[i] : i \in 1..Len(StepOrder)}

FourTargets ==
    TargetCoverageFile(
        <<[chr |-> chr10, start |-> 1000, profile |-> Profile07],
          [chr |-> chr2, start |-> 2000, profile |-> Profile07],
          [chr |-> chr2, start |-> 1000, profile |-> Profile246],
          [chr |-> chr10, start |-> 2000, profile |-> Profile246]>>)

OneTarget ==
    TargetCoverageFile(<<[chr |-> chr2, start |-> 1000, profile |-> Profile246]>>)

BothPopulations ==
    <<[target |-> "T", in_stats |-> TRUE, read_length |-> 2501],
      [target |-> "", in_stats |-> TRUE, read_length |-> 1000]>>

DefaultFiles ==
    [nsamples |-> 1,
     bad |-> {},
     coverage_summary |-> [on_reads |-> 100, off_reads |-> 20,
                           on_bases |-> 50000, off_bases |-> 5000],
     on_off |-> BothPopulations,
     target_summary |-> <<[chr |-> chr10, start |-> 900, p |-> 3, n |-> 1],
                          [chr |-> chr2, start |-> 1000, p |-> 0, n |-> 0]>>,
     target_coverage |-> FourTargets,
     background |-> <<0, 3>>,
     hotspots |-> <<[chr |-> chr2, start |-> 0, num_reads |-> 1],
                    [chr |-> chr2, start |-> 1000, num_reads |-> 2]>>]

\* the inputs of the runs of main
MainFiles ==
    {[DefaultFiles EXCEPT !.nsamples = ns, !.bad = b, !.on_off = oo,
                          !.target_coverage = tc] :
        ns \in 1..MaxSamples,
        b \in {{}} \cup {{st} : st \in Steps},
        oo \in {BothPopulations, SubSeq(BothPopulations, 1, 1)},
        tc \in {FourTargets, OneTarget}}

InitState(p) ==
    /\ pc = p
    /\ report = <<>>
    /\ cov = <<>>
    /\ exc = NoExc
    /\ written = FALSE

(***************************************************************************)
(* Specifications: a run of main, and a call of each section builder on a  *)
(* new report                                                              *)
(***************************************************************************)
Init ==
    /\ files \in MainFiles
    /\ InitState("read_stats")

Next ==
    \/ read_stats
    \/ make_coverage_summary_table
    \/ _make_target_summary_table
    \/ _plot_target_coverage
    \/ _plot_background
    \/ _make_offtarget_hotspot_table
    \/ version_table
    \/ params_table
    \/ write

Spec == Init /\ [][Next]_vars

InitCoverageSummary ==
    /\ files \in {[DefaultFiles EXCEPT !.coverage_summary = cs, !.on_off = oo] :
                     cs \in CoverageSummaryFiles, oo \in OnOffFiles}
    /\ InitState("coverage_summary")

NextCoverageSummary == make_coverage_summary_table

SpecCoverageSummary == InitCoverageSummary /\ [][NextCoverageSummary]_vars

InitTargetSummary ==
    /\ files \in {[DefaultFiles EXCEPT !.target_summary = ts] :
                     ts \in TargetSummaryFiles}
    /\ InitState("target_summary")

NextTargetSummary == _make_target_summary_table

SpecTargetSummary == InitTargetSummary /\ [][NextTargetSummary]_vars

InitTargetCoverage ==
    /\ files \in {[DefaultFiles EXCEPT !.target_coverage = tc] :
                     tc \in TargetCoverageFiles}
    /\ InitState("target_coverage")

NextTargetCoverage == _plot_target_coverage

SpecTargetCoverage == InitTargetCoverage /\ [][NextTargetCoverage]_vars

InitHotspots ==
    /\ files \in {[DefaultFiles EXCEPT !.hotspots = h] : h \in HotspotFiles}
    /\ InitState("hotspots")

NextHotspots == _make_offtarget_hotspot_table

SpecHotspots == InitHotspots /\ [][NextHotspots]_vars

(***************************************************************************)
(* What the claims speak of                                                *)
(***************************************************************************)
HasTable(kind) ==
    \E i \in 1..Len(report) : report[i].kind = kind /\ report[i].rendered

TableOf(kind) ==
    report[CHOOSE i \in 1..Len(report) : report[i].kind = kind /\ report[i].rendered].table

SectionKinds == [i \in 1..Len(report) |-> report[i].kind]

\* idx of every row of table t is a row number of the input, each once
IsPermutationOf(t, input) ==
    /\ Len(t) = Len(input)
    /\ \A i \in 1..Len(t) : t[i].idx \in 1..Len(input)
    /\ \A i, j \in 1..Len(t) : t[i].idx = t[j].idx => i = j

\* the number a chromosome name "chr<digits>" ends with
ChromNumber(c) ==
    LET F[k \in 3..Len(c)] == IF k = 3 THEN 0 ELSE 10 * F[k - 1] + DigitVal(c[k])
    IN  F[Len(c)]

Flatten(grid) ==
    LET F[k \in 0..Len(grid)] == IF k = 0 THEN <<>> ELSE F[k - 1] \o grid[k]
    IN  F[Len(grid)]

TargetsOf(rows) == {rows[i].target : i \in 1..Len(rows)}

(***************************************************************************)
(* C1                                                                      *)
(***************************************************************************)
\* C1 as stated: in the rendered coverage-summary table the 'all' row is
\* the sum of the 'on target' and 'off target' rows, for the read count and
\* for the kilobase total.
C1_AllIsSum ==
    HasTable("coverage_summary") =>
        LET t == TableOf("coverage_summary")
        IN  /\ t[3].num_reads = t[1].num_reads + t[2].num_reads
            /\ t[3].kbases = t[1].kbases + t[2].kbases

\* C1 as amended: the read count of 'all' is the sum of the two read counts;
\* each kilobase total shown is its base count divided by 1000 and truncated
\* to an integer, that of 'all' being taken of the summed base counts, so
\* 'all' shows the sum of the two other kilobase totals or one more.
C1_AllIsSumUpToTruncation ==
    HasTable("coverage_summary") =>
        LET t == TableOf("coverage_summary")
            f == files.coverage_summary
        IN  /\ t[1].num_reads = f.on_reads /\ t[2].num_reads = f.off_reads
            /\ t[3].num_reads = f.on_reads + f.off_reads
            /\ t[1].kbases = f.on_bases \div 1000
            /\ t[2].kbases = f.off_bases \div 1000
            /\ t[3].kbases = (f.on_bases + f.off_bases) \div 1000
            /\ t[3].kbases - (t[1].kbases + t[2].kbases) \in {0, 1}

\* a table is rendered whose kilobase totals do not add up: 1 + 0 against 2
C1_Witness ==
    /\ HasTable("coverage_summary")
    /\ files.coverage_summary.on_bases = 1500
    /\ files.coverage_summary.off_bases = 500
    /\ TableOf("coverage_summary")[3].kbases = 2

(***************************************************************************)
(* C2                                                                      *)
(***************************************************************************)
SectionsOfCompleteReport(nsamples) ==
    [i \in 1..nsamples |-> "read_stats"]
    \o <<"coverage_summary", "target_summary", "target_coverage", "background",
         "hotspots", "versions", "params">>

IsPrefix(s, t) == Len(s) <= Len(t) /\ \A i \in 1..Len(s) : s[i] = t[i]

\* C2: the sections are added in the fixed order; the report is written
\* only when every step has completed and rendered its section; when a step
\* has raised, nothing is written.
C2_WriteOnlyAfterAllSteps ==
    /\ IsPrefix(SectionKinds, SectionsOfCompleteReport(files.nsamples))
    /\ written =>
        /\ SectionKinds = SectionsOfCompleteReport(files.nsamples)
        /\ \A i \in 1..Len(report) : report[i].rendered
        /\ exc = NoExc
    /\ exc # NoExc => ~written

C2_Witness ==
    /\ written
    /\ pc = "done"
    /\ Len(report) = files.nsamples + 7

(***************************************************************************)
(* C3                                                                      *)
(***************************************************************************)
\* C3 as stated: the charts of the grid are in natural order of chromosome
\* (chr2 before chr10), and the charts of one chromosome are in the order
\* of the start positions of their targets.
C3_ChartsByChromThenStart ==
    HasTable("target_coverage") =>
        LET c == Flatten(TableOf("target_coverage"))
        IN  \A i, j \in 1..Len(c) :
                i < j =>
                    /\ ChromNumber(c[i].x_axis_label) <= ChromNumber(c[j].x_axis_label)
                    /\ c[i].x_axis_label = c[j].x_axis_label
                           => c[i].first_start <= c[j].first_start

(***************************************************************************)
(* C4                                                                      *)
(***************************************************************************)
\* C4: the rendered target-summary rows are the input rows, each once, with
\* the chromosomes in non-decreasing natural order (chr2 before chr10) and
\* the starts of one chromosome in non-decreasing numeric order.
C4_RowsInNaturalOrder ==
    HasTable("target_summary") =>
        LET t == TableOf("target_summary")
            input == files.target_summary
        IN  /\ IsPermutationOf(t, input)
            /\ \A i \in 1..Len(t) :
                   /\ t[i].chr = input[t[i].idx].chr
                   /\ t[i].start = input[t[i].idx].start
            /\ \A i, j \in 1..Len(t) :
                   i < j =>
                       /\ ChromNumber(t[i].chr) <= ChromNumber(t[j].chr)
                       /\ t[i].chr = t[j].chr => t[i].start <= t[j].start

\* a table whose file has chr10 before chr2 and, on chr2, 1000 before 900
C4_Witness ==
    /\ HasTable("target_summary")
    /\ Len(files.target_summary) = MaxSummaryRows
    /\ files.target_summary[1].chr = chr10
    /\ files.target_summary[MaxSummaryRows].chr = chr2
    /\ TableOf("target_summary")[1].chr = chr2
    /\ TableOf("target_summary")[1].idx = MaxSummaryRows

(***************************************************************************)
(* C5                                                                      *)
(***************************************************************************)
\* C5: a row with p + n > 0 has a strandBias between -1 and 1, which is 1
\* exactly when n = 0 and -1 exactly when p = 0.
C5_StrandBiasInRange ==
    HasTable("target_summary") =>
        LET t == TableOf("target_summary")
            input == files.target_summary
        IN  \A i \in 1..Len(t) :
                LET b == t[i].strandBias
                    p == input[t[i].idx].p
                    n == input[t[i].idx].n
                IN  p + n > 0 =>
                        /\ b.den > 0
                        /\ -b.den <= b.num /\ b.num <= b.den
                        /\ b.num = b.den <=> n = 0
                        /\ b.num = -b.den <=> p = 0

\* a table with a row of bias +1 and a row of bias strictly between 0 and 1
C5_Witness ==
    /\ HasTable("target_summary")
    /\ \E i \in 1..Len(TableOf("target_summary")) :
           LET b == TableOf("target_summary")[i].strandBias
           IN  b.den > 0 /\ b.num = b.den
    /\ \E i \in 1..Len(TableOf("target_summary")) :
           LET b == TableOf("target_summary")[i].strandBias
           IN  0 < b.num /\ b.num < b.den

(***************************************************************************)
(* C10                                                                     *)
(***************************************************************************)
\* C10: when a row of the file has p = 0 and n = 0 the call raises nothing,
\* the table is rendered with every row, the strandBias of that row is NaN
\* and the strandBias of a row with p + n > 0 is (p - n) / (p + n).
C10_ZeroCountsPassThrough ==
    (/\ pc # "target_summary"
     /\ \E k \in 1..Len(files.target_summary) :
            files.target_summary[k].p = 0 /\ files.target_summary[k].n = 0)
    => /\ exc = NoExc
       /\ pc = "target_coverage"
       /\ HasTable("target_summary")
       /\ LET t == TableOf("target_summary")
              input == files.target_summary
          IN  /\ IsPermutationOf(t, input)
              /\ \A i \in 1..Len(t) :
                     LET p == input[t[i].idx].p
                         n == input[t[i].idx].n
                     IN  IF p + n = 0
                         THEN IsNaN(t[i].strandBias)
                         ELSE /\ t[i].strandBias.den = p + n
                              /\ t[i].strandBias.num = p - n

\* a rendered table with a NaN row and a row of bias 1/2
C10_Witness ==
    /\ HasTable("target_summary")
    /\ \E i, j \in 1..Len(TableOf("target_summary")) :
           /\ IsNaN(TableOf("target_summary")[i].strandBias)
           /\ TableOf("target_summary")[j].strandBias = Ratio(2, 4)

(***************************************************************************)
(* C6                                                                      *)
(***************************************************************************)
\* the largest coverage, of either strand, among the rows of one target
TargetMax(rows, target) ==
    Max({rows[i].coverage_f : i \in {k \in 1..Len(rows) : rows[k].target = target}}
        \cup
        {rows[i].coverage_r : i \in {k \in 1..Len(rows) : rows[k].target = target}})

\* C6: the y range of the chart of a target is [0, 1.05 * M], M the largest
\* forward or reverse coverage among the rows of that target (in hundredths:
\* 105 * M; 630 for forward 2, 4, 6 and reverse 1, 3, 5).
C6_YLimPerTarget ==
    HasTable("target_coverage") =>
        LET c == Flatten(TableOf("target_coverage"))
        IN  /\ {c[i].title : i \in 1..Len(c)} = TargetsOf(files.target_coverage)
            /\ \A i \in 1..Len(c) :
                   c[i].ylim = <<0, 105 * TargetMax(files.target_coverage, c[i].title)>>

\* a grid with a chart of range [0, 6.3] and a chart of range [0, 7.35]
C6_Witness ==
    /\ HasTable("target_coverage")
    /\ \E i, j \in 1..Len(Flatten(TableOf("target_coverage"))) :
           /\ Flatten(TableOf("target_coverage"))[i].ylim = <<0, 630>>
           /\ Flatten(TableOf("target_coverage"))[j].ylim = <<0, 735>>

(***************************************************************************)
(* C7                                                                      *)
(***************************************************************************)
\* C7: the rows of the hotspot table are the rows of the file, each once and
\* unchanged, in non-increasing order of num_reads.
C7_HotspotsDescending ==
    HasTable("hotspots") =>
        LET t == TableOf("hotspots")
            input == files.hotspots
        IN  /\ IsPermutationOf(t, input)
            /\ \A i \in 1..Len(t) :
                   /\ t[i].chr = input[t[i].idx].chr
                   /\ t[i].start = input[t[i].idx].start
                   /\ t[i].num_reads = input[t[i].idx].num_reads
            /\ \A i \in 1..(Len(t) - 1) : t[i].num_reads >= t[i + 1].num_reads

\* a table of a file whose rows were in increasing order of num_reads
C7_Witness ==
    /\ HasTable("hotspots")
    /\ Len(files.hotspots) = MaxHotspotRows
    /\ \A i \in 1..(MaxHotspotRows - 1) :
           files.hotspots[i].num_reads < files.hotspots[i + 1].num_reads
    /\ TableOf("hotspots")[1].idx = MaxHotspotRows

(***************************************************************************)
(* C8                                                                      *)
(***************************************************************************)
\* C8 as stated: the series returned has one value for every row of the
\* table, the sum of the forward and the reverse coverage of that row.
C8_ReturnsEveryRow ==
    (pc = "background" /\ exc = NoExc) =>
        /\ IsPermutationOf(cov, files.target_coverage)
        /\ \A i \in 1..Len(cov) :
               cov[i].coverage = files.target_coverage[cov[i].idx].coverage_f
                                 + files.target_coverage[cov[i].idx].coverage_r

(***************************************************************************)
(* C9                                                                      *)
(***************************************************************************)
\* C9 as stated: with one target or more the call raises nothing, every
\* chart is in the grid of 4 columns and exactly one chart has the legend.
C9_AnyNumberOfTargets ==
    (pc # "target_coverage" /\ TargetsOf(files.target_coverage) # {}) =>
        /\ exc = NoExc
        /\ HasTable("target_coverage")
        /\ LET grid == TableOf("target_coverage")
               c == Flatten(grid)
           IN  /\ \A r \in 1..Len(grid) : Len(grid[r]) <= ncols
               /\ {c[i].title : i \in 1..Len(c)} = TargetsOf(files.target_coverage)
               /\ Cardinality({i \in 1..Len(c) : c[i].legend}) = 1

====
